---------------------------- MODULE Spec2Model ----------------------------
(* A model of scripts/validate_sprites.py: the sprite-sheet validator.     *)
(*                                                                         *)
(* Two specifications are given.                                           *)
(*   Spec       the run of main() over the six expected files, each of     *)
(*              which is absent, present but undecodable, or a decodable   *)
(*              image with a width, a height and a count of alpha=0 pixels *)
(*   CheckSpec  one call of check() on a decodable image drawn from a      *)
(*              wider set of sizes and transparent-pixel counts            *)
(*                                                                         *)
(* Text is modelled by its parts: a result string is a record of its       *)
(* leading word (prefix), the fixed wording that follows it (reason) and   *)
(* the numbers formatted into it, in order (args). A percentage rendered   *)
(* with d decimals is the pair <<n, d>>, standing for the digits of        *)
(* n / 10^d followed by "%".                                               *)
EXTENDS Integers, Sequences, FiniteSets

VARIABLES
    fs,        \* the sprite directory: filename -> absent, undecodable or image
    i,         \* main(): index into FILES of the file the loop is at
    ok,        \* main(): the aggregate flag
    report,    \* standard output, one record per printed line
    opened,    \* the files check() has been called on
    pc,        \* "loop", "exited", "crashed" (Spec); "call", "returned" (CheckSpec)
    exitCode,  \* << >> while running, <<status>> once the process has ended
    img,       \* CheckSpec: the decoded image check() is called on
    res        \* CheckSpec: the string check() returned

vars == <<fs, i, ok, report, opened, pc, exitCode, img, res>>

---------------------------------------------------------------------------
(* Program constants                                                       *)

FILES ==
    << "toad_idle_right_v1.png",
       "toad_jump_right_v1.png",
       "toad_land_right_v1.png",
       "toad_cashout_right_v1.png",
       "toad_jackpot_right_v1.png",
       "toad_dead_right_v1.png" >>

SHEET_W == 1024

SHEET_H == 256

FRAMES == 4

FRAME_W == SHEET_W \div FRAMES

FRAME_H == SHEET_H

---------------------------------------------------------------------------
(* Bounds of the model                                                     *)

\* Spec: image widths range over SHEET_W - MaxShrink .. SHEET_W
MaxShrink == 1

\* CheckSpec: widths and heights range over the expected value +- MaxDelta
MaxDelta == 1

---------------------------------------------------------------------------
(* The files on disk                                                       *)

Absent == [kind |-> "absent", w |-> 0, h |-> 0, alpha0 |-> 0]

Corrupt == [kind |-> "corrupt", w |-> 0, h |-> 0, alpha0 |-> 0]

Picture(w, h, alpha0) == [kind |-> "image", w |-> w, h |-> h, alpha0 |-> alpha0]

\* the least count of alpha=0 pixels that is at least 1% of total pixels
OnePercent(total) == (total + 99) \div 100

\* Spec: per width, one image just under 1% transparency and one at it
MainImages ==
    { Picture(w, SHEET_H, a) :
        <<w, a>> \in UNION { { <<x, OnePercent(x * SHEET_H) - 1>>,
                              <<x, OnePercent(x * SHEET_H)>> } :
                            x \in (SHEET_W - MaxShrink) .. SHEET_W } }

FileStates == {Absent, Corrupt} \cup MainImages

\* CheckSpec: every count 0..w*h at the expected size; elsewhere none, just
\* under 1%, at 1% and all pixels
AlphaCounts(w, h) ==
    IF <<w, h>> = <<SHEET_W, SHEET_H>>
      THEN 0 .. (w * h)
      ELSE {0, OnePercent(w * h) - 1, OnePercent(w * h), w * h}

CheckWidths == (SHEET_W - MaxDelta) .. (SHEET_W + MaxDelta)

CheckHeights == (SHEET_H - MaxDelta) .. (SHEET_H + MaxDelta)

---------------------------------------------------------------------------
(* check(): the result strings                                             *)

NoResult == [prefix |-> "", reason |-> "", args |-> << >>]

\* long division: n more decimal digits of (q + r/d)
RECURSIVE LongDiv(_, _, _, _)
LongDiv(q, r, d, n) ==
    IF n = 0 THEN <<q, r>>
    ELSE LongDiv(q * 10 + ((r * 10) \div d), (r * 10) % d, d, n - 1)

\* format(alpha0 / total, ".<places>%"): the value times 100, rounded to
\* `places` decimals, ties to even. The result <<n, places>> stands for the
\* text of n / 10^places followed by "%". At total = 2^18, the only total
\* that reaches the formatting, alpha0/total and its hundredfold are exact
\* in binary floating point, so the rounding is that of the exact quotient.
PercentFormat(alpha0, total, places) ==
    LET qr == LongDiv(alpha0 \div total, alpha0 % total, total, places + 2)
        up == \/ 2 * qr[2] > total
              \/ 2 * qr[2] = total /\ qr[1] % 2 = 1
    IN  << IF up THEN qr[1] + 1 ELSE qr[1], places >>

\* faulty variant: the ratio is taken by integer division
BelowThresholdFloorDiv(alpha0, total) == (alpha0 \div total) * 100 < 1

\* pct = alpha0 / total; pct < 0.01. Both sides are doubles: the division
\* is correctly rounded and rounding is monotonic, so alpha0/total >= 1/100
\* gives pct >= 0.01; and alpha0/total < 1/100 leaves a gap of at least
\* 1/(100*total), far above the spacing of doubles near 0.01, so pct < 0.01.
BelowThreshold(alpha0, total) == 100 * alpha0 < total

FailWrongSize(w, h) ==
    [prefix |-> "FAIL", reason |-> "wrong size", args |-> <<w, h, SHEET_W, SHEET_H>>]

FailNotDivisible(w, h) ==
    [prefix |-> "FAIL", reason |-> "width not divisible by", args |-> <<FRAMES, w, h>>]

\* faulty variant: the failure message uses the two decimals of the OK message
FailNoTransparencyTwoPlaces(alpha0, total) ==
    [prefix |-> "FAIL", reason |-> "no real transparency",
     args |-> PercentFormat(alpha0, total, 2)]

FailNoTransparency(alpha0, total) ==
    [prefix |-> "FAIL", reason |-> "no real transparency",
     args |-> PercentFormat(alpha0, total, 4)]

OkResult(w, h, alpha0, total) ==
    [prefix |-> "OK", reason |-> "size",
     args |-> <<w, h>> \o PercentFormat(alpha0, total, 2) \o <<FRAME_W, FRAME_H>>]

\* faulty variant: only the height is compared with the expected size
CheckHeightOnly(image) ==
    IF image.h # SHEET_H THEN FailWrongSize(image.w, image.h)
    ELSE IF image.w % FRAMES # 0 THEN FailNotDivisible(image.w, image.h)
    ELSE IF BelowThreshold(image.alpha0, image.w * image.h)
         THEN FailNoTransparency(image.alpha0, image.w * image.h)
         ELSE OkResult(image.w, image.h, image.alpha0, image.w * image.h)

\* faulty variant: the divisibility check comes before the size check
CheckDivisibilityFirst(image) ==
    IF image.w % FRAMES # 0 THEN FailNotDivisible(image.w, image.h)
    ELSE IF <<image.w, image.h>> # <<SHEET_W, SHEET_H>>
         THEN FailWrongSize(image.w, image.h)
    ELSE IF BelowThreshold(image.alpha0, image.w * image.h)
         THEN FailNoTransparency(image.alpha0, image.w * image.h)
         ELSE OkResult(image.w, image.h, image.alpha0, image.w * image.h)

\* faulty variant: the transparency check comes before the size check
CheckTransparencyFirst(image) ==
    IF BelowThreshold(image.alpha0, image.w * image.h)
         THEN FailNoTransparency(image.alpha0, image.w * image.h)
    ELSE IF <<image.w, image.h>> # <<SHEET_W, SHEET_H>>
         THEN FailWrongSize(image.w, image.h)
    ELSE IF image.w % FRAMES # 0 THEN FailNotDivisible(image.w, image.h)
    ELSE OkResult(image.w, image.h, image.alpha0, image.w * image.h)

\* check(path) on a file that decodes to `image`
Check(image) ==
    IF <<image.w, image.h>> # <<SHEET_W, SHEET_H>>
         THEN FailWrongSize(image.w, image.h)
    ELSE IF image.w % FRAMES # 0 THEN FailNotDivisible(image.w, image.h)
    ELSE IF BelowThreshold(image.alpha0, image.w * image.h)
         THEN FailNoTransparency(image.alpha0, image.w * image.h)
         ELSE OkResult(image.w, image.h, image.alpha0, image.w * image.h)

\* res.startswith(word)
StartsWith(r, word) == r.prefix = word

---------------------------------------------------------------------------
(* main(): the report and the loop over FILES                              *)

HeaderLine(what) == [kind |-> "HEADER", file |-> what, res |-> NoResult]

MissingLine(f) == [kind |-> "MISSING", file |-> f, res |-> NoResult]

ResultLine(f, r) == [kind |-> "RESULT", file |-> f, res |-> r]

Header == << HeaderLine("Repo root"), HeaderLine("Sprite root"), HeaderLine("-") >>

NoExit == << >>

\* the state of main() on entering the loop, over every state of the disk
Init ==
    /\ fs \in [ {FILES[j] : j \in 1 .. Len(FILES)} -> FileStates ]
    /\ i = 1
    /\ ok = TRUE
    /\ report = Header
    /\ opened = {}
    /\ pc = "loop"
    /\ exitCode = NoExit
    /\ img = Absent
    /\ res = NoResult

\* faulty variant: the missing file is reported but the flag is left alone
MissingKeepsOk ==
    /\ pc = "loop" /\ i <= Len(FILES)
    /\ fs[FILES[i]].kind = "absent"
    /\ report' = Append(report, MissingLine(FILES[i]))
    /\ i' = i + 1
    /\ UNCHANGED <<fs, ok, opened, pc, exitCode, img, res>>

\* faulty variant: the missing file fails the run but no line is printed for it
MissingSkipsLine ==
    /\ pc = "loop" /\ i <= Len(FILES)
    /\ fs[FILES[i]].kind = "absent"
    /\ ok' = FALSE
    /\ i' = i + 1
    /\ UNCHANGED <<fs, report, opened, pc, exitCode, img, res>>

\* faulty variant: break instead of continue
MissingBreaks ==
    /\ pc = "loop" /\ i <= Len(FILES)
    /\ fs[FILES[i]].kind = "absent"
    /\ report' = Append(report, MissingLine(FILES[i]))
    /\ ok' = FALSE
    /\ i' = Len(FILES) + 1
    /\ UNCHANGED <<fs, opened, pc, exitCode, img, res>>

\* one pass of the loop body on a path that does not exist
Missing ==
    /\ pc = "loop" /\ i <= Len(FILES)
    /\ fs[FILES[i]].kind = "absent"
    /\ report' = Append(report, MissingLine(FILES[i]))
    /\ ok' = FALSE
    /\ i' = i + 1
    /\ UNCHANGED <<fs, opened, pc, exitCode, img, res>>

\* faulty variant: the flag is assigned the outcome of the current file
CheckedAssignsOk ==
    /\ pc = "loop" /\ i <= Len(FILES)
    /\ fs[FILES[i]].kind = "image"
    /\ opened' = opened \cup {FILES[i]}
    /\ report' = Append(report, ResultLine(FILES[i], Check(fs[FILES[i]])))
    /\ ok' = ~StartsWith(Check(fs[FILES[i]]), "FAIL")
    /\ i' = i + 1
    /\ UNCHANGED <<fs, pc, exitCode, img, res>>

\* one pass of the loop body on a file that exists and decodes
Checked ==
    /\ pc = "loop" /\ i <= Len(FILES)
    /\ fs[FILES[i]].kind = "image"
    /\ opened' = opened \cup {FILES[i]}
    /\ report' = Append(report, ResultLine(FILES[i], Check(fs[FILES[i]])))
    /\ ok' = IF StartsWith(Check(fs[FILES[i]]), "FAIL") THEN FALSE ELSE ok
    /\ i' = i + 1
    /\ UNCHANGED <<fs, pc, exitCode, img, res>>

\* faulty variant: the decode error is caught, reported as a failure, and the loop goes on
DecodeFailCaught ==
    /\ pc = "loop" /\ i <= Len(FILES)
    /\ fs[FILES[i]].kind = "corrupt"
    /\ opened' = opened \cup {FILES[i]}
    /\ report' = Append(report, ResultLine(FILES[i],
                    [prefix |-> "FAIL", reason |-> "unreadable", args |-> << >>]))
    /\ ok' = FALSE
    /\ i' = i + 1
    /\ UNCHANGED <<fs, pc, exitCode, img, res>>

\* one pass of the loop body on a file that exists and does not decode:
\* Image.open raises inside check(), nothing catches it, and the interpreter
\* ends the process with status 1
DecodeFail ==
    /\ pc = "loop" /\ i <= Len(FILES)
    /\ fs[FILES[i]].kind = "corrupt"
    /\ opened' = opened \cup {FILES[i]}
    /\ pc' = "crashed"
    /\ exitCode' = <<1>>
    /\ UNCHANGED <<fs, i, ok, report, img, res>>

\* sys.exit(0 if ok else 1)
Exit ==
    /\ pc = "loop" /\ i = Len(FILES) + 1
    /\ pc' = "exited"
    /\ exitCode' = IF ok THEN <<0>> ELSE <<1>>
    /\ UNCHANGED <<fs, i, ok, report, opened, img, res>>

Next == Missing \/ Checked \/ DecodeFail \/ Exit

Spec == Init /\ [][Next]_vars

---------------------------------------------------------------------------
(* One call of check()                                                     *)

CheckInit ==
    /\ \E w \in CheckWidths, h \in CheckHeights :
          \E a \in AlphaCounts(w, h) : img = Picture(w, h, a)
    /\ res = NoResult
    /\ pc = "call"
    /\ fs = [f \in {FILES[j] : j \in 1 .. Len(FILES)} |-> Absent]
    /\ i = 1
    /\ ok = TRUE
    /\ report = << >>
    /\ opened = {}
    /\ exitCode = NoExit

CallCheck ==
    /\ pc = "call"
    /\ res' = Check(img)
    /\ pc' = "returned"
    /\ UNCHANGED <<fs, i, ok, report, opened, exitCode, img>>

CheckNext == CallCheck

CheckSpec == CheckInit /\ [][CheckNext]_vars

---------------------------------------------------------------------------
(* Properties                                                              *)

N == Len(FILES)

Terminated == pc \in {"exited", "crashed"}

IsAbsent(j) == fs[FILES[j]].kind = "absent"

IsCorrupt(j) == fs[FILES[j]].kind = "corrupt"

IsImage(j) == fs[FILES[j]].kind = "image"

\* the report line of the j-th file, counted after the header
LineOf(j) == report[Len(Header) + j]

\* the files that have a line in the report
Reported == { report[n].file : n \in (Len(Header) + 1) .. Len(report) }

\* the line main() prints for the j-th file when it gets to it
ExpectedLine(j) ==
    IF IsAbsent(j) THEN MissingLine(FILES[j])
    ELSE ResultLine(FILES[j], Check(fs[FILES[j]]))

RightSize(image) == image.w = 1024 /\ image.h = 256

\* C1: when main() runs to completion over absent files and decodable
\* images, the exit code is 0 exactly when all six files exist and check()
\* returns an OK result for each of them, and is 1 otherwise.
InvC1 ==
    pc = "exited" =>
        /\ exitCode \in {<<0>>, <<1>>}
        /\ exitCode = <<0>> <=>
              \A j \in 1 .. N : IsImage(j) /\ Check(fs[FILES[j]]).prefix = "OK"

WitC1 == pc = "exited" /\ exitCode = <<0>> /\ \A j \in 1 .. N : IsImage(j)

InvC3 ==
    \A j \in 1 .. N :
        (IsImage(j) /\ ~RightSize(fs[FILES[j]]) /\ j < i) =>
            /\ LineOf(j) =
                 ResultLine(FILES[j],
                    [prefix |-> "FAIL", reason |-> "wrong size",
                     args |-> <<fs[FILES[j]].w, fs[FILES[j]].h, 1024, 256>>])
            /\ Terminated => exitCode = <<1>>

WitC3 ==
    /\ pc = "exited"
    /\ \E j \in 1 .. N : IsImage(j) /\ ~RightSize(fs[FILES[j]])

\* C4 as stated: check() of a 1023x256 image returns
\* "FAIL width not divisible by 4: 1023x256".
InvC4Original ==
    (pc = "returned" /\ img.w = 1023 /\ img.h = 256) =>
        res = [prefix |-> "FAIL", reason |-> "width not divisible by",
               args |-> <<4, 1023, 256>>]

\* C4 as amended: check() of a 1023x256 image returns
\* "FAIL wrong size 1023x256 (expected 1024x256)"; the size check has
\* returned before the divisibility check is reached.
InvC4 ==
    (pc = "returned" /\ img.w = 1023 /\ img.h = 256) =>
        res = [prefix |-> "FAIL", reason |-> "wrong size",
               args |-> <<1023, 256, 1024, 256>>]

WitC4 == pc = "returned" /\ img.w = 1023 /\ img.h = 256 /\ res.prefix = "FAIL"

\* C5: for a 1024x256 image with k alpha=0 pixels, check() returns OK
\* exactly when 100*k >= 262144, that is k >= 2622, and returns
\* "FAIL no real transparency" when k <= 2621.
InvC5 ==
    (pc = "returned" /\ RightSize(img)) =>
        /\ res.prefix = "OK" <=> 100 * img.alpha0 >= 1024 * 256
        /\ res.prefix = "OK" <=> img.alpha0 >= 2622
        /\ img.alpha0 <= 2621 =>
              res.prefix = "FAIL" /\ res.reason = "no real transparency"

WitC5 == pc = "returned" /\ RightSize(img) /\ img.alpha0 = 2622 /\ res.prefix = "OK"

\* the first undecodable file of the list, 0 when every file is absent or decodes
FirstCorrupt ==
    IF \E j \in 1 .. N : IsCorrupt(j)
      THEN CHOOSE j \in 1 .. N : IsCorrupt(j) /\ \A k \in 1 .. (j - 1) : ~IsCorrupt(k)
      ELSE 0

\* C6: when the first undecodable file is file c, the run never gets past
\* it and never exits normally; no line is ever printed for file c or a
\* later file, and when the run has ended the report is the header and the
\* lines of files 1..c-1, unchanged, and the exit code is not 0.
InvC6 ==
    FirstCorrupt # 0 =>
        /\ i <= FirstCorrupt
        /\ pc # "exited"
        /\ exitCode # <<0>>
        /\ \A j \in FirstCorrupt .. N : FILES[j] \notin Reported
        /\ pc = "crashed" =>
              /\ i = FirstCorrupt
              /\ report = Header \o [j \in 1 .. (i - 1) |-> ExpectedLine(j)]
        /\ (pc = "loop" /\ i = FirstCorrupt) => ENABLED DecodeFail

WitC6 == pc = "crashed" /\ i > 2 /\ i < N

\* C7 as stated: check() of a fully opaque 1024x256 image returns
\* "FAIL no real transparency (alpha0=0.00%)", two decimals.
InvC7Original ==
    (pc = "returned" /\ RightSize(img) /\ img.alpha0 = 0) =>
        res = [prefix |-> "FAIL", reason |-> "no real transparency",
               args |-> <<0, 2>>]

\* C7 as amended: check() of a fully opaque 1024x256 image returns
\* "FAIL no real transparency (alpha0=0.0000%)", four decimals.
InvC7 ==
    (pc = "returned" /\ RightSize(img) /\ img.alpha0 = 0) =>
        res = [prefix |-> "FAIL", reason |-> "no real transparency",
               args |-> <<0, 4>>]

WitC7 ==
    /\ pc = "returned" /\ RightSize(img) /\ img.alpha0 = 0
    /\ res.reason = "no real transparency"

\* C8: the flag ok starts true, and no step of main() takes it from false
\* back to true.
PropC8 == ok = TRUE /\ [][ok = FALSE => ok' = FALSE]_vars

WitC8 ==
    /\ pc = "loop" /\ i > 2 /\ ok = FALSE
    /\ LineOf(i - 1).kind = "RESULT" /\ LineOf(i - 1).res.prefix = "OK"

\* C9: while no decode has failed, the report holds the header and one line
\* for each file examined so far, in the order of FILES; the next file is
\* examined only after that, whatever the outcomes were; and main() exits
\* only after all six lines.
InvC9 ==
    pc \in {"loop", "exited"} =>
        /\ Len(report) = Len(Header) + (i - 1)
        /\ \A j \in 1 .. (i - 1) :
              /\ LineOf(j).file = FILES[j]
              /\ LineOf(j).kind \in {"MISSING", "RESULT"}
              /\ IsAbsent(j) <=> LineOf(j).kind = "MISSING"
        /\ pc = "exited" =>
              /\ i - 1 = 6
              /\ [j \in 1 .. 6 |-> LineOf(j).file] =
                    << "toad_idle_right_v1.png", "toad_jump_right_v1.png",
                       "toad_land_right_v1.png", "toad_cashout_right_v1.png",
                       "toad_jackpot_right_v1.png", "toad_dead_right_v1.png" >>
        /\ (pc = "loop" /\ FirstCorrupt = 0) => ENABLED Next

WitC9 ==
    /\ pc = "exited"
    /\ LineOf(1).kind = "MISSING"
    /\ LineOf(2).kind = "RESULT" /\ LineOf(2).res.prefix = "FAIL"
    /\ LineOf(3).kind = "RESULT" /\ LineOf(3).res.prefix = "OK"

SizeBad(image) == <<image.w, image.h>> # <<1024, 256>>

DivisibilityBad(image) == image.w % 4 # 0

TransparencyBad(image) == 100 * image.alpha0 < image.w * image.h

\* C10: check() returns the failure of the first check, in the order size,
\* divisibility, transparency, that the image fails, and OK only when it
\* passes all three; an image of wrong size with under 1% transparent
\* pixels is reported as wrong size.
InvC10 ==
    pc = "returned" =>
        /\ res.prefix \in {"OK", "FAIL"}
        /\ res.prefix = "OK" <=>
              ~SizeBad(img) /\ ~DivisibilityBad(img) /\ ~TransparencyBad(img)
        /\ res.prefix = "FAIL" =>
              /\ res.reason = "wrong size" <=> SizeBad(img)
              /\ res.reason = "width not divisible by" <=>
                    ~SizeBad(img) /\ DivisibilityBad(img)
              /\ res.reason = "no real transparency" <=>
                    ~SizeBad(img) /\ ~DivisibilityBad(img) /\ TransparencyBad(img)

WitC10 ==
    /\ pc = "returned" /\ SizeBad(img) /\ TransparencyBad(img)
    /\ res.reason = "wrong size"

=============================================================================
